---- MODULE Spec2Model ----
(***************************************************************************)
(* Professor-groups record linking of the scraper: name normalization,     *)
(* duplicate consolidation, index construction, the matching cascade and   *)
(* the linking pass over the persisted group files.                        *)
(*                                                                         *)
(* A string is a sequence of one-character strings; the empty string is    *)
(* <<>>.                                                                   *)
(***************************************************************************)
EXTENDS Integers, Sequences, FiniteSets, TLC

(***************************************************************************)
(* Characters and the str methods the code uses.                           *)
(***************************************************************************)
LowerChars ==
    << "a", "b", "c", "d", "e", "f", "g", "h", "i", "j", "k", "l", "m",
       "n", "o", "p", "q", "r", "s", "t", "u", "v", "w", "x", "y", "z",
       "á", "é", "í", "ó", "ú", "ü", "ñ" >>

UpperChars ==
    << "A", "B", "C", "D", "E", "F", "G", "H", "I", "J", "K", "L", "M",
       "N", "O", "P", "Q", "R", "S", "T", "U", "V", "W", "X", "Y", "Z",
       "Á", "É", "Í", "Ó", "Ú", "Ü", "Ñ" >>

\* The characters A-Z, in code point order.
AsciiUpper == { UpperChars[i] : i \in 1..26 }

\* str.isspace() of one character.
IsSpace(c) == c \in { " ", "\n", "\t" }

\* str.upper() of one character.
UpperChar(c) ==
    IF \E i \in 1..Len(LowerChars) : LowerChars[i] = c
    THEN UpperChars[CHOOSE i \in 1..Len(LowerChars) : LowerChars[i] = c]
    ELSE c

\* str.upper()
Upper(s) == [i \in 1..Len(s) |-> UpperChar(s[i])]

\* s[n:]
Drop(s, n) == IF n >= Len(s) THEN <<>> ELSE SubSeq(s, n + 1, Len(s))

\* str.lstrip(chars)
LStripChars(s, chars) ==
    IF \A i \in 1..Len(s) : s[i] \in chars
    THEN <<>>
    ELSE Drop(s, (CHOOSE i \in 1..Len(s) :
                     /\ s[i] \notin chars
                     /\ \A j \in 1..(i - 1) : s[j] \in chars) - 1)

\* str.strip()
Strip(s) ==
    IF \A i \in 1..Len(s) : IsSpace(s[i])
    THEN <<>>
    ELSE LET first == CHOOSE i \in 1..Len(s) :
                         /\ ~IsSpace(s[i])
                         /\ \A j \in 1..(i - 1) : IsSpace(s[j])
             last  == CHOOSE i \in 1..Len(s) :
                         /\ ~IsSpace(s[i])
                         /\ \A j \in (i + 1)..Len(s) : IsSpace(s[j])
         IN  SubSeq(s, first, last)

\* str.startswith(prefix)
StartsWith(s, prefix) ==
    /\ Len(prefix) <= Len(s)
    /\ \A i \in 1..Len(prefix) : s[i] = prefix[i]

\* str.split(): the maximal runs of non-whitespace characters, in order.
RECURSIVE Split(_)
Split(s) ==
    LET t == LStripChars(s, { " ", "\n", "\t" })
    IN  IF t = <<>>
        THEN <<>>
        ELSE LET n == IF \E i \in 1..Len(t) : IsSpace(t[i])
                      THEN (CHOOSE i \in 1..Len(t) :
                               /\ IsSpace(t[i])
                               /\ \A j \in 1..(i - 1) : ~IsSpace(t[j])) - 1
                      ELSE Len(t)
             IN  <<SubSeq(t, 1, n)>> \o Split(Drop(t, n))

\* " ".join(words)
RECURSIVE Join(_)
Join(words) ==
    IF words = <<>> THEN <<>>
    ELSE IF Len(words) = 1 THEN words[1]
    ELSE words[1] \o <<" ">> \o Join(Tail(words))

\* re.sub(r"[^A-ZÑ\s]", "", s)
KeepLetters(s) ==
    SelectSeq(s, LAMBDA c : c \in AsciiUpper \/ c = "Ñ" \/ IsSpace(c))

\* re.sub(r"\s+", " ", s)
RECURSIVE CollapseSpaces(_)
CollapseSpaces(s) ==
    IF s = <<>> THEN <<>>
    ELSE IF IsSpace(s[1])
    THEN <<" ">> \o CollapseSpaces(LStripChars(s, { " ", "\n", "\t" }))
    ELSE <<s[1]>> \o CollapseSpaces(Tail(s))

\* re.sub(r"\s*\(.*?\)", "", s): the leftmost "(" that a ")" follows with no
\* newline between is removed with the whitespace before it, up to the first
\* such ")"; the scan goes on after it.
RECURSIVE RemoveParens(_)
RemoveParens(s) ==
    LET Closes(j) == { q \in (j + 1)..Len(s) : s[q] = ")" }
        Close(j)  == CHOOSE q \in Closes(j) : \A r \in Closes(j) : q <= r
        Opens == { j \in 1..Len(s) :
                     /\ s[j] = "("
                     /\ Closes(j) # {}
                     /\ \A r \in (j + 1)..(Close(j) - 1) : s[r] # "\n" }
    IN  IF Opens = {}
        THEN s
        ELSE LET j == CHOOSE o \in Opens : \A p \in Opens : o <= p
                 start == CHOOSE i \in 1..j :
                             /\ \A r \in i..(j - 1) : IsSpace(s[r])
                             /\ (i = 1 \/ ~IsSpace(s[i - 1]))
             IN  SubSeq(s, 1, start - 1) \o RemoveParens(Drop(s, Close(j)))

\* str.replace("\n", " ")
ReplaceNewlines(s) == [i \in 1..Len(s) |-> IF s[i] = "\n" THEN " " ELSE s[i]]

(***************************************************************************)
(* parsers/utils.py                                                        *)
(***************************************************************************)
ACADEMIC_TITLES ==
    { <<"D", "R">>, <<"D", "R", ".">>, <<"D", "R", "A">>,
      <<"D", "R", "A", ".">>, <<"D", "O", "C">>, <<"D", "O", "C", ".">>,
      <<"M", ".", "C", ".">>, <<"M", "C">>, <<"M", ".", "C">>,
      <<"M", "C", ".">>, <<"M", ".", "C", ".", "Q", ".">>, <<"M", "C", "Q">>,
      <<"M", "C", "Q", ".">>, <<"M", ".", "C", ".", "Q">>, <<"M", "C", ".", "Q">>,
      <<"M", ".", "C", "Q">>, <<"M", ".", "I", ".">>, <<"M", "I">>,
      <<"M", ".", "I">>, <<"M", "I", ".">>, <<"M", ".", "A", ".">>,
      <<"M", "A">>, <<"M", "A", ".">>, <<"M", ".", "A">>,
      <<"M", ".", "E", ".">>, <<"M", "E">>, <<"M", "E", ".">>,
      <<"M", ".", "E">>, <<"M", "T", "R", "O">>, <<"M", "T", "R", "O", ".">>,
      <<"M", "T", "R", "A">>, <<"M", "T", "R", "A", ".">>, <<"M", ".", "S", "C", ".">>,
      <<"M", "S", "C">>, <<"M", ".", "S", "C">>, <<"M", "S", "C", ".">>,
      <<"I", "N", "G">>, <<"I", "N", "G", ".">>, <<"L", "I", "C">>,
      <<"L", "I", "C", ".">>, <<"A", "R", "Q">>, <<"A", "R", "Q", ".">>,
      <<"P", "R", "O", "F">>, <<"P", "R", "O", "F", ".">>, <<"C", ".", "P", ".">>,
      <<"C", "P">>, <<"C", "P", ".">>, <<"C", ".", "P">>,
      <<"L", ".", "C", ".", "C", ".">>, <<"L", "C", "C">>, <<"L", "C", "C", ".">>,
      <<"L", ".", "C", ".", "C">>, <<"L", ".", "C", "C">>, <<"L", "C", ".", "C">>,
      <<"L", ".", "A", ".">>, <<"L", "A">>, <<"L", "A", ".">>,
      <<"L", ".", "A">>, <<"C", ".", "D", ".">>, <<"C", "D">>,
      <<"C", "D", ".">>, <<"C", ".", "D">>, <<"Q", ".", "F", ".", "B", ".">>,
      <<"Q", "F", "B">>, <<"Q", "F", "B", ".">>, <<"Q", ".", "F", ".", "B">>,
      <<"Q", ".", "F", "B">>, <<"Q", "F", ".", "B">>, <<"M", ".", "D", ".">>,
      <<"M", "D">>, <<"M", "D", ".">>, <<"M", ".", "D">>,
      <<"P", "H", ".", "D", ".">>, <<"P", "H", "D">>, <<"P", "H", "D", ".">>,
      <<"P", "H", ".", "D">>, <<"P", ".", "H", ".", "D", ".">> }

\* The test of the loop body without line 121: every title the upper-cased
\* name starts with applies, whatever follows it.
TitleAppliesNoBoundary(name, name_upper, title) == StartsWith(name_upper, title)

\* The test of remove_academic_title's loop body, lines 120-121: the
\* upper-cased name starts with the title, and the title ends the name or a
\* whitespace follows it.
TitleApplies(name, name_upper, title) ==
    /\ StartsWith(name_upper, title)
    /\ (Len(name) = Len(title) \/ IsSpace(name[Len(title) + 1]))

\* The titles the test of the loop body holds for.
ApplyingTitles(stripped, name_upper) ==
    { title \in ACADEMIC_TITLES : TitleApplies(stripped, name_upper, title) }

\* remove_academic_title, lines 119-124, for the stripped name: titles are
\* tried longest first and two titles of one length cannot both start the
\* name, so the loop returns on the longest title that applies.
RemoveLongestTitle(stripped, applies) ==
    IF applies = {}
    THEN stripped
    ELSE LStripChars(
             Drop(stripped,
                  Len(CHOOSE t \in applies : \A u \in applies : Len(u) <= Len(t))),
             { ".", " " })

\* remove_academic_title, lines 116-117 and on.
RemoveTitleOfStripped(stripped) ==
    RemoveLongestTitle(stripped, ApplyingTitles(stripped, Upper(stripped)))

remove_academic_title(name) ==
    IF name = <<>>
    THEN <<>>
    ELSE RemoveTitleOfStripped(Strip(name))

\* ACCENT_MAP of normalize_name_for_matching.
UtilsAccentMap(c) ==
    CASE c \in { "Á", "á" } -> "A"
      [] c \in { "É", "é" } -> "E"
      [] c \in { "Í", "í" } -> "I"
      [] c \in { "Ó", "ó" } -> "O"
      [] c \in { "Ú", "ú", "ü", "Ü" } -> "U"
      [] OTHER -> c

normalize_name_for_matching(name) ==
    IF name = <<>>
    THEN <<>>
    ELSE LET a == Strip(ReplaceNewlines(RemoveParens(name)))
             b == Strip(Upper(remove_academic_title(a)))
             c == [i \in 1..Len(b) |-> UtilsAccentMap(b[i])]
             d == Strip(KeepLetters(c))
         IN  Strip(CollapseSpaces(d))

(***************************************************************************)
(* parsers/professors.py: the name of a roster record.                     *)
(***************************************************************************)
\* ProfessorRatingsParser.ACCENT_MAP: no entry for "Ü".
ParserAccentMap(c) ==
    CASE c \in { "Á", "á" } -> "A"
      [] c \in { "É", "é" } -> "E"
      [] c \in { "Í", "í" } -> "I"
      [] c \in { "Ó", "ó" } -> "O"
      [] c \in { "Ú", "ú", "ü" } -> "U"
      [] OTHER -> c

Parser_normalize_name(name) ==
    IF name = <<>>
    THEN <<>>
    ELSE LET b == Strip(Upper(remove_academic_title(name)))
             c == [i \in 1..Len(b) |-> ParserAccentMap(b[i])]
             d == Strip(KeepLetters(c))
         IN  Strip(CollapseSpaces(d))

\* A rating is kept in hundredths: 475 stands for 4.75.
RECURSIVE SumRatings(_)
SumRatings(entries) ==
    IF entries = <<>> THEN 0
    ELSE entries[1].num_ratings + SumRatings(Tail(entries))

RECURSIVE WeightedSum(_)
WeightedSum(entries) ==
    IF entries = <<>> THEN 0
    ELSE entries[1].rating * entries[1].num_ratings + WeightedSum(Tail(entries))

\* round(weighted_sum / total_ratings, 2), in hundredths. The quotient is a
\* binary float: when it lies halfway between two hundredths its float is
\* above or below the half, and tie_up says which.
Round2(weighted_sum, total_ratings, tie_up) ==
    LET floor == weighted_sum \div total_ratings
        rest == weighted_sum % total_ratings
    IN  IF 2 * rest < total_ratings THEN floor
        ELSE IF 2 * rest > total_ratings THEN floor + 1
        ELSE IF tie_up THEN floor + 1 ELSE floor

\* entries[0] in place of the entry with the most ratings.
FirstEntry(entries) == entries[1]

\* max(entries, key=num_ratings): the first entry no other exceeds.
MaxByRatings(entries) ==
    entries[CHOOSE i \in 1..Len(entries) :
               /\ \A j \in 1..Len(entries) :
                     entries[j].num_ratings <= entries[i].num_ratings
               /\ \A j \in 1..(i - 1) :
                     entries[j].num_ratings < entries[i].num_ratings]

\* ProfessorRatingsParser._merge
Parser_merge(entries, tie_up) ==
    LET main == MaxByRatings(entries)
        total_ratings == SumRatings(entries)
        weighted_sum == WeightedSum(entries)
    IN  [id |-> main.id,
         full_name |-> main.full_name,
         first_name |-> main.first_name,
         last_name |-> main.last_name,
         num_ratings |-> total_ratings,
         rating |-> IF total_ratings > 0
                    THEN Round2(weighted_sum, total_ratings, tie_up)
                    ELSE 0]

\* A filter that lets entries with one rating through.
FilteredFromOne(profs) == SelectSeq(profs, LAMBDA p : p.num_ratings >= 1)

\* The filter of consolidate, line 119.
Filtered(profs) == SelectSeq(profs, LAMBDA p : p.num_ratings > 1)

\* The name of every entry, repeats kept.
GroupNamesOfEntries(filtered) == [i \in 1..Len(filtered) |-> filtered[i].full_name]

\* The keys of consolidate's groups, in insertion order.
RECURSIVE GroupNames(_)
GroupNames(filtered) ==
    IF filtered = <<>>
    THEN <<>>
    ELSE LET before == GroupNames(SubSeq(filtered, 1, Len(filtered) - 1))
             name == filtered[Len(filtered)].full_name
         IN  IF name = <<>> \/ \E i \in 1..Len(before) : before[i] = name
             THEN before
             ELSE Append(before, name)

\* groups[name]
GroupEntries(filtered, name) == SelectSeq(filtered, LAMBDA p : p.full_name = name)

\* ProfessorRatingsParser.consolidate
Parser_consolidate(profs, tie_up) ==
    LET filtered == Filtered(profs)
        names == GroupNames(filtered)
    IN  [k \in 1..Len(names) |->
            LET entries == GroupEntries(filtered, names[k])
            IN  IF Len(entries) = 1
                THEN entries[1]
                ELSE Parser_merge(entries, tie_up[names[k]])]

(***************************************************************************)
(* linker.py: the matching side.                                           *)
(***************************************************************************)
CONNECTORS ==
    { <<"D", "E">>, <<"D", "E", "L">>, <<"L", "A">>, <<"L", "A", "S">>,
      <<"L", "O", "S">>, <<"Y">> }

\* _normalize_name without the filter of line 87: connectors stay.
NormalizeKeepingConnectors(name) ==
    IF name = <<>>
    THEN <<>>
    ELSE Join(Split(KeepLetters(Strip(Upper(remove_academic_title(name))))))

\* ProfessorGroupsLinker._normalize_name
Linker_normalize_name(name) ==
    IF name = <<>>
    THEN <<>>
    ELSE LET a == Strip(Upper(remove_academic_title(name)))
             b == KeepLetters(a)
             words == SelectSeq(Split(b), LAMBDA w : w # <<>> /\ w \notin CONNECTORS)
         IN  Join(words)

\* ProfessorGroupsLinker._get_tokens
Linker_get_tokens(normalized_name) ==
    IF normalized_name = <<>>
    THEN {}
    ELSE { Split(normalized_name)[i] : i \in 1..Len(Split(normalized_name)) }

\* Code point order of the characters a normalized name is made of.
LetterOrder ==
    << "A", "B", "C", "D", "E", "F", "G", "H", "I", "J", "K", "L", "M",
       "N", "O", "P", "Q", "R", "S", "T", "U", "V", "W", "X", "Y", "Z", "Ñ" >>

CharCode(c) == CHOOSE i \in 1..Len(LetterOrder) : LetterOrder[i] = c

\* a <= b in Python's string order.
StrLessEq(a, b) ==
    \/ StartsWith(b, a)
    \/ \E i \in 1..Len(a) :
          /\ i <= Len(b)
          /\ \A j \in 1..(i - 1) : a[j] = b[j]
          /\ a[i] # b[i]
          /\ CharCode(a[i]) < CharCode(b[i])

\* sorted(tokens)
RECURSIVE SortedTokens(_)
SortedTokens(tokens) ==
    IF tokens = {}
    THEN <<>>
    ELSE LET least == CHOOSE t \in tokens : \A u \in tokens : StrLessEq(t, u)
         IN  <<least>> \o SortedTokens(tokens \ {least})

\* token_key = " ".join(sorted(tokens))
TokenKey(tokens) == Join(SortedTokens(tokens))

\* The key a roster record is filed under in both indexes.
NormalizedKey(prof) == Linker_normalize_name(prof.full_name)

\* professor_by_normalized when a key already taken keeps its record.
RECURSIVE BuildByNormalizedKeepingFirst(_, _)
BuildByNormalizedKeepingFirst(profs, n) ==
    IF n = 0
    THEN <<>>
    ELSE LET before == BuildByNormalizedKeepingFirst(profs, n - 1)
             key == NormalizedKey(profs[n])
         IN  [k \in DOMAIN before \cup {key} |->
                 IF k \in DOMAIN before THEN before[k] ELSE profs[n]]

\* ProfessorGroupsLinker._build_indexes, professor_by_normalized after the
\* first n records: a later record replaces an earlier one under the same key.
RECURSIVE BuildByNormalized(_, _)
BuildByNormalized(profs, n) ==
    IF n = 0
    THEN <<>>
    ELSE LET before == BuildByNormalized(profs, n - 1)
             key == NormalizedKey(profs[n])
         IN  [k \in DOMAIN before \cup {key} |->
                 IF k = key THEN profs[n] ELSE before[k]]

\* The entries with a copy of the record, named by its key, appended to the
\* list of its key.
AppendCopyUnderKey(entries, key, prof) ==
    IF \E i \in 1..Len(entries) : entries[i].key = key
    THEN [i \in 1..Len(entries) |->
             IF entries[i].key = key
             THEN [key |-> key,
                   profs |-> Append(entries[i].profs, [prof EXCEPT !.full_name = key])]
             ELSE entries[i]]
    ELSE Append(entries, [key |-> key, profs |-> <<[prof EXCEPT !.full_name = key]>>])

\* The entries with the record put at the head of the list of its key.
PrependUnderKey(entries, key, prof) ==
    IF \E i \in 1..Len(entries) : entries[i].key = key
    THEN [i \in 1..Len(entries) |->
             IF entries[i].key = key
             THEN [key |-> key, profs |-> <<prof>> \o entries[i].profs]
             ELSE entries[i]]
    ELSE Append(entries, [key |-> key, profs |-> <<prof>>])

\* professor_by_tokens after the first n records: the entries in insertion
\* order, each a key and the list of the records appended under it.
AppendUnderKey(entries, key, prof) ==
    IF \E i \in 1..Len(entries) : entries[i].key = key
    THEN [i \in 1..Len(entries) |->
             IF entries[i].key = key
             THEN [key |-> key, profs |-> Append(entries[i].profs, prof)]
             ELSE entries[i]]
    ELSE Append(entries, [key |-> key, profs |-> <<prof>>])

RECURSIVE BuildByTokens(_, _)
BuildByTokens(profs, n) ==
    IF n = 0
    THEN <<>>
    ELSE AppendUnderKey(BuildByTokens(profs, n - 1),
                        TokenKey(Linker_get_tokens(NormalizedKey(profs[n]))),
                        profs[n])

\* The records of every entry whose key's tokens are exactly the group's
\* tokens: a token the key lacks excludes the entry.
RECURSIVE TokenMatchesEqualSets(_, _)
TokenMatchesEqualSets(by_tokens, group_tokens) ==
    IF by_tokens = <<>>
    THEN <<>>
    ELSE LET rating_tokens == Linker_get_tokens(by_tokens[1].key)
             rest == TokenMatchesEqualSets(Tail(by_tokens), group_tokens)
         IN  IF rating_tokens = group_tokens
             THEN by_tokens[1].profs \o rest
             ELSE rest

\* _match_professor, lines 177-182: the records of every entry whose key's
\* tokens are all among the group's tokens, in entry order.
RECURSIVE TokenMatches(_, _)
TokenMatches(by_tokens, group_tokens) ==
    IF by_tokens = <<>>
    THEN <<>>
    ELSE LET rating_tokens == Linker_get_tokens(by_tokens[1].key)
             rest == TokenMatches(Tail(by_tokens), group_tokens)
         IN  IF rating_tokens \subseteq group_tokens
             THEN by_tokens[1].profs \o rest
             ELSE rest

\* The sort key of line 193: the number of distinct whitespace-separated
\* tokens of the record's full_name as stored.
FullNameTokenCount(prof) == Cardinality(Linker_get_tokens(prof.full_name))

\* The candidates left in the order they were collected in.
InCollectedOrder(matches) == matches

\* matches.sort(key=..., reverse=True): stable, so among equal keys the
\* earlier record stays first.
RECURSIVE SortByTokenCountDesc(_)
SortByTokenCountDesc(matches) ==
    IF matches = <<>>
    THEN <<>>
    ELSE LET i == CHOOSE i \in 1..Len(matches) :
                     /\ \A j \in 1..Len(matches) :
                           FullNameTokenCount(matches[j]) <= FullNameTokenCount(matches[i])
                     /\ \A j \in 1..(i - 1) :
                           FullNameTokenCount(matches[j]) < FullNameTokenCount(matches[i])
         IN  <<matches[i]>> \o
             SortByTokenCountDesc(SubSeq(matches, 1, i - 1)
                                  \o SubSeq(matches, i + 1, Len(matches)))

\* The containment of line 201 the other way round: the record's tokens are
\* all among the group's.
RosterTokensInQuery(group_tokens, prof) ==
    Linker_get_tokens(prof.full_name) \subseteq group_tokens

\* _match_professor, lines 199-202: the test of the last loop.
ReverseTest(group_tokens, prof) ==
    group_tokens \subseteq Linker_get_tokens(prof.full_name)

\* A JSON file: absent, unparseable, or holding data.
FileAbsent == [status |-> "absent", data |-> <<>>]
FileCorrupt == [status |-> "corrupt", data |-> <<>>]
FileOf(data) == [status |-> "ok", data |-> data]

\* A key a dict does not have.
Absent == "Absent"

\* Python's None, as a value and as the id of no record.
None == "None"

\* _match_professor returning None: no record, by no return of a record.
NoMatch == [stage |-> "none", prof |-> [id |-> None]]

\* _match_professor, lines 184-204, with the candidates collected and the
\* roster positions that pass the last loop's test.
MatchByTokens(profs, matches, reverse) ==
    IF Len(matches) = 1
    THEN [stage |-> "token", prof |-> matches[1]]
    ELSE IF Len(matches) > 1
    THEN [stage |-> "ambiguous", prof |-> SortByTokenCountDesc(matches)[1]]
    ELSE IF reverse # {}
    THEN [stage |-> "reverse",
          prof |-> profs[CHOOSE i \in reverse : \A j \in reverse : i <= j]]
    ELSE NoMatch

\* _match_professor, lines 173-204, with the tokens of the normalized name.
MatchTokens(profs, by_tokens, group_tokens) ==
    IF group_tokens = {}
    THEN NoMatch
    ELSE MatchByTokens(profs,
                       TokenMatches(by_tokens, group_tokens),
                       { i \in 1..Len(profs) : ReverseTest(group_tokens, profs[i]) })

\* The cascade with the exact lookup tried after the token stages.
MatchNormalizedTokensFirst(profs, by_normalized, by_tokens, normalized) ==
    IF normalized = <<>>
    THEN NoMatch
    ELSE IF MatchTokens(profs, by_tokens, Linker_get_tokens(normalized)) # NoMatch
    THEN MatchTokens(profs, by_tokens, Linker_get_tokens(normalized))
    ELSE IF normalized \in DOMAIN by_normalized
    THEN [stage |-> "exact", prof |-> by_normalized[normalized]]
    ELSE NoMatch

\* _match_professor, lines 167-204, with the normalized name.
MatchNormalized(profs, by_normalized, by_tokens, normalized) ==
    IF normalized = <<>>
    THEN NoMatch
    ELSE IF normalized \in DOMAIN by_normalized
    THEN [stage |-> "exact", prof |-> by_normalized[normalized]]
    ELSE MatchTokens(profs, by_tokens, Linker_get_tokens(normalized))

\* ProfessorGroupsLinker._match_professor: the record returned and the return
\* statement that returned it.
Linker_match_professor(profs, by_normalized, by_tokens, professor_name) ==
    MatchNormalized(profs, by_normalized, by_tokens,
                    Linker_normalize_name(professor_name))

\* self.professors after a call in which the sort of line 192 sorts the
\* roster list itself.
ProfessorsSortedInPlace(profs, m) ==
    IF m.stage = "ambiguous" THEN SortByTokenCountDesc(profs) ELSE profs

\* self.professors after a call of _match_professor that returned m: the
\* call reads the roster and the indexes; the one list it changes is matches
\* (lines 177, 182, 192), a list of its own, and no statement assigns to a
\* key of a record.
ProfessorsAfterMatch(profs, m) == profs

\* ProfessorGroupsLinker._load_professors: self.professors stays [] when the
\* file is missing or cannot be loaded.
Linker_load_professors(file) ==
    IF file.status = "ok" THEN file.data ELSE <<>>

\* A value of a group list that is not a JSON object: group.get raises on it.
NotADict ==
    [code |-> "NotADict", group |-> 0, professor |-> <<>>,
     professor_id |-> Absent, prof_data |-> <<>>]

IsDict(group) == group.code # "NotADict"

\* The groups a loop over the list gets through before group.get raises.
RECURSIVE DictPrefix(_)
DictPrefix(groups) ==
    IF groups = <<>> \/ ~IsDict(groups[1])
    THEN <<>>
    ELSE <<groups[1]>> \o DictPrefix(Tail(groups))

\* _process_groups, lines 111-114: the non-empty professor names the loop
\* adds to unique_professors, which are those met before group.get raises.
ProfessorNames(groups) ==
    { DictPrefix(groups)[i].professor : i \in 1..Len(DictPrefix(groups)) } \ { <<>> }

\* A dict is the set of its items, each a pair of key and value; d[key].
DictGet(d, key) == (CHOOSE item \in d : item[1] = key)[2]

\* The body of the loop of line 134 with a group that already has a
\* professor_id skipped like a group without a name.
LinkGroupUnlessLinked(group, professor_matches) ==
    IF group.professor = <<>> \/ group.professor_id # Absent
    THEN [group |-> group, matched |-> 0, unmatched |-> 0, updated |-> FALSE]
    ELSE IF DictGet(professor_matches, group.professor).stage # "none"
    THEN [group |-> [group EXCEPT !.professor_id =
                        DictGet(professor_matches, group.professor).prof.id],
          matched |-> 1, unmatched |-> 0, updated |-> TRUE]
    ELSE [group |-> [group EXCEPT !.professor_id = None],
          matched |-> 0, unmatched |-> 1, updated |-> FALSE]

\* The body of the loop of line 134 with a name that has no match left
\* uncounted.
LinkGroupCountingMatchesOnly(group, professor_matches) ==
    IF group.professor = <<>>
    THEN [group |-> group, matched |-> 0, unmatched |-> 0, updated |-> FALSE]
    ELSE IF DictGet(professor_matches, group.professor).stage # "none"
    THEN [group |-> [group EXCEPT !.professor_id =
                        DictGet(professor_matches, group.professor).prof.id],
          matched |-> 1, unmatched |-> 0, updated |-> TRUE]
    ELSE [group |-> [group EXCEPT !.professor_id = None],
          matched |-> 0, unmatched |-> 0, updated |-> FALSE]

\* _process_groups, lines 136-149, the body of the loop for one group after
\* total_groups += 1: the group as updated in memory, what it adds to
\* matched_count and unmatched, and whether it sets updated.
LinkGroup(group, professor_matches) ==
    IF group.professor = <<>>
    THEN [group |-> group, matched |-> 0, unmatched |-> 0, updated |-> FALSE]
    ELSE IF DictGet(professor_matches, group.professor).stage # "none"
    THEN [group |-> [group EXCEPT !.professor_id =
                        DictGet(professor_matches, group.professor).prof.id],
          matched |-> 1, unmatched |-> 0, updated |-> TRUE]
    ELSE [group |-> [group EXCEPT !.professor_id = None],
          matched |-> 0, unmatched |-> 1, updated |-> FALSE]

\* _process_groups, lines 133-149, for the groups of one file: the groups as
\* updated in memory, what they add to the counters, the updated flag, and
\* whether the loop raised. total_groups += 1 (line 135) comes before
\* group.get (line 136), so the value that raises is counted in the total,
\* and what the groups before it added to the counters stays added.
RECURSIVE ApplyMatches(_, _)
ApplyMatches(groups, professor_matches) ==
    IF groups = <<>>
    THEN [groups |-> <<>>, matched |-> 0, total |-> 0, unmatched |-> 0,
          updated |-> FALSE, raised |-> FALSE]
    ELSE IF ~IsDict(groups[1])
    THEN [groups |-> groups, matched |-> 0, total |-> 1, unmatched |-> 0,
          updated |-> FALSE, raised |-> TRUE]
    ELSE LET linked == LinkGroup(groups[1], professor_matches)
             rest == ApplyMatches(Tail(groups), professor_matches)
         IN  [groups |-> <<linked.group>> \o rest.groups,
              matched |-> rest.matched + linked.matched,
              total |-> rest.total + 1,
              unmatched |-> rest.unmatched + linked.unmatched,
              updated |-> linked.updated \/ rest.updated,
              raised |-> rest.raised]

\* The courses whose groups are scraped: groups/<course>.json.
Courses == { "1001", "1002" }

\* The I/O operation on a group file that fails in a pass: its read, the open
\* for writing (the file stays as it was), or the dump after the open
\* truncated it.
Faults == [Courses -> { "none", "read", "open", "dump" }]

\* The files of to_write no file is written of once a write has failed.
WrittenUnlessOneFails(to_write, faults) ==
    IF \E c \in to_write : faults[c] # "none" THEN {} ELSE to_write

\* _process_groups, lines 131-156: the try is inside the loop over the files,
\* so the files written are those of to_write whose own write does not fail.
WrittenFiles(to_write, faults) == { c \in to_write : faults[c] = "none" }

\* The sum of d[key] over the keys.
RECURSIVE SumOver(_, _)
SumOver(d, keys) ==
    IF keys = {} THEN 0
    ELSE LET c == CHOOSE c \in keys : TRUE
         IN  DictGet(d, c) + SumOver(d, keys \ {c})

\* The number of groups with a professor name the first loop reads in the
\* files loaded: the calls made when every such group has its own call.
MatchCallsPerGroup(files, loaded) ==
    SumOver({ <<c, Cardinality({ i \in 1..Len(DictPrefix(files[c].data)) :
                                    files[c].data[i].professor # <<>> })>> :
              c \in loaded }, loaded)

\* _process_groups, lines 102-124: unique_professors is a set, and the loop
\* of line 122 calls _match_professor once for each of its members.
MatchCalls(files, loaded) ==
    Cardinality(UNION { ProfessorNames(files[c].data) : c \in loaded })

\* _process_groups, lines 120-124: _match_professor of each name.
Linker_match_all(profs, names) ==
    LET by_normalized == BuildByNormalized(profs, Len(profs))
        by_tokens == BuildByTokens(profs, Len(profs))
    IN  { <<n, Linker_match_professor(profs, by_normalized, by_tokens, n)>> :
             n \in names }

\* The names of the group files that parse.
ReadableNames(dir_exists, files) ==
    UNION { ProfessorNames(files[c].data) :
               c \in { c \in Courses : dir_exists /\ files[c].status = "ok" } }

\* ProfessorGroupsLinker._process_groups under the faults given, matches
\* holding _match_professor of every name the pass can meet: whether the
\* faults can happen (a read fails on a file that parses, a write on a file
\* the pass writes), the group files after the pass and what it returns.
Linker_process_groups(dir_exists, files, matches, faults) ==
    LET readable == { c \in Courses : dir_exists /\ files[c].status = "ok" }
        loaded == { c \in readable : faults[c] # "read" }
        unique_professors == UNION { ProfessorNames(files[c].data) : c \in loaded }
        professor_matches == { m \in matches : m[1] \in unique_professors }
        applied == { <<c, ApplyMatches(files[c].data, professor_matches)>> : c \in loaded }
        raised == { c \in loaded : DictGet(applied, c).raised }
        to_write == { c \in loaded \ raised : DictGet(applied, c).updated }
        written == WrittenFiles(to_write, faults)
    IN  [possible |-> \A c \in Courses :
                         /\ faults[c] = "read" => c \in readable
                         /\ faults[c] \in { "open", "dump" } => c \in to_write,
         group_files |->
             [c \in Courses |->
                 IF c \in written THEN FileOf(DictGet(applied, c).groups)
                 ELSE IF c \in to_write /\ faults[c] = "dump" THEN FileCorrupt
                 ELSE files[c]],
         matched |-> SumOver({ <<c, DictGet(applied, c).matched>> : c \in loaded }, loaded),
         total |-> SumOver({ <<c, DictGet(applied, c).total>> : c \in loaded }, loaded),
         unmatched |-> SumOver({ <<c, DictGet(applied, c).unmatched>> : c \in loaded }, loaded),
         professor_matches |-> professor_matches,
         match_calls |-> MatchCalls(files, loaded),
         written |-> written,
         unread |-> { c \in Courses : dir_exists /\ files[c].status # "absent" } \ loaded,
         raised |-> raised,
         failed |-> { c \in to_write : faults[c] # "none" },
         clean |-> /\ \A c \in Courses : faults[c] = "none"
                   /\ \A c \in Courses : files[c].status # "corrupt"]

\* The match rate computed whatever the total: matched / 0 raises
\* ZeroDivisionError, which line 229 catches.
MatchRateUnguarded(matched, total) ==
    [computed |-> TRUE,
     percent |-> IF total = 0 THEN 0 ELSE (matched * 100) \div total,
     error |-> total = 0]

\* link_professors_groups, lines 221-226: the match rate, computed only for a
\* positive total, and whether computing it raised.
MatchRate(matched, total) ==
    IF total > 0
    THEN [computed |-> TRUE, percent |-> (matched * 100) \div total,
          error |-> FALSE]
    ELSE [computed |-> FALSE, percent |-> 0, error |-> FALSE]

(***************************************************************************)
(* storage.py                                                              *)
(***************************************************************************)
\* asdict(group): a group as the groups parser built it. A key the dict lacks
\* is Absent; prof_data is <<>> or the first_name, last_name, rating and
\* num_ratings save_groups embeds.
GroupDict(course, i, professor_name) ==
    [code |-> course, group |-> i, professor |-> professor_name,
     professor_id |-> Absent, prof_data |-> <<>>]

\* DataStorage.load_professor_ratings: the records by id, here in file
\* order; {} when the file is missing or cannot be loaded.
Storage_load_professor_ratings(file) ==
    IF file.status = "ok" THEN file.data ELSE <<>>

\* DataStorage.save_groups, lines 159-166: the group with what a match embeds.
EmbedMatch(group_dict, m) ==
    IF m.stage # "none"
    THEN [group_dict EXCEPT
             !.professor_id = m.prof.id,
             !.prof_data = <<m.prof.first_name, m.prof.last_name,
                             m.prof.rating, m.prof.num_ratings>>]
    ELSE group_dict

\* DataStorage.save_groups, lines 155-168, with the linker's indexes.
SaveGroupsWithIndexes(course, professor_names, professor_ratings, by_normalized, by_tokens) ==
    [i \in 1..Len(professor_names) |->
        IF professor_ratings # <<>> /\ professor_names[i] # <<>>
        THEN EmbedMatch(GroupDict(course, i, professor_names[i]),
                        Linker_match_professor(professor_ratings, by_normalized,
                                               by_tokens, professor_names[i]))
        ELSE GroupDict(course, i, professor_names[i])]

\* DataStorage.save_groups, lines 149-168: the list that is written.
Storage_save_groups_data(course, professor_names, professor_ratings) ==
    SaveGroupsWithIndexes(course, professor_names, professor_ratings,
        BuildByNormalized(professor_ratings, Len(professor_ratings)),
        BuildByTokens(professor_ratings, Len(professor_ratings)))

\* sorted(professors, key=lambda p: (p.rating, p.num_ratings), reverse=True)
RECURSIVE SortedByRating(_)
SortedByRating(profs) ==
    IF profs = <<>>
    THEN <<>>
    ELSE LET Before(a, b) ==
                 \/ a.rating > b.rating
                 \/ a.rating = b.rating /\ a.num_ratings > b.num_ratings
             i == CHOOSE i \in 1..Len(profs) :
                     /\ \A j \in 1..Len(profs) : ~Before(profs[j], profs[i])
                     /\ \A j \in 1..(i - 1) : Before(profs[i], profs[j])
         IN  <<profs[i]>> \o
             SortedByRating(SubSeq(profs, 1, i - 1) \o SubSeq(profs, i + 1, Len(profs)))

(***************************************************************************)
(* The names the model draws from.                                         *)
(***************************************************************************)
JUAN_PEREZ == <<"J", "U", "A", "N", " ", "P", "E", "R", "E", "Z">>
JUAN_CARLOS_PEREZ == <<"J", "U", "A", "N", " ", "C", "A", "R", "L", "O", "S", " ", "P", "E", "R", "E", "Z">>
JUAN_DE_LA_CRUZ == <<"J", "U", "A", "N", " ", "D", "E", " ", "L", "A", " ", "C", "R", "U", "Z">>
PEREZ_GARCIA_JUAN == <<"P", "E", "R", "E", "Z", " ", "G", "A", "R", "C", "I", "A", " ", "J", "U", "A", "N">>
JUAN_PEREZ_PEREZ == <<"J", "U", "A", "N", " ", "P", "E", "R", "E", "Z", " ", "P", "E", "R", "E", "Z">>
DE_LA == <<"D", "E", " ", "L", "A">>
Dr_Juan_Perez == <<"D", "r", ".", " ", "J", "u", "a", "n", " ", "P", "é", "r", "e", "z">>
JUAN_PEREZ_GARCIA == <<"J", "U", "A", "N", " ", "P", "E", "R", "E", "Z", " ", "G", "A", "R", "C", "I", "A">>
DE_LA_CRUZ_JUAN == <<"D", "E", " ", "L", "A", " ", "C", "R", "U", "Z", ",", " ", "J", "U", "A", "N">>
JUAN_DE_PEREZ == <<"J", "U", "A", "N", " ", "D", "E", " ", "P", "E", "R", "E", "Z">>
ANA_LUNA == <<"A", "N", "A", " ", "L", "U", "N", "A">>
INGRID_LOPEZ == <<"I", "N", "G", "R", "I", "D", " ", "L", "O", "P", "E", "Z">>
ING_MARIA_LOPEZ == <<"I", "N", "G", ".", " ", "M", "A", "R", "I", "A", " ", "L", "O", "P", "E", "Z">>
MARIA_LOPEZ == <<"M", "A", "R", "I", "A", " ", "L", "O", "P", "E", "Z">>
Dra_Ana_Guemes == <<" ", " ", "D", "r", "a", ".", " ", "A", "n", "a", " ", "G", "ü", "e", "m", "e", "s", " ", "(", "F", "I", "M", "E", ")", "\n">>
JUAN_CRUZ == <<"J", "U", "A", "N", " ", "C", "R", "U", "Z">>
CRUZ_JUAN == <<"C", "R", "U", "Z", " ", "J", "U", "A", "N">>

\* The characters raw names are typed from, one at a time.
TypedChars == { "D", "R", "A", "Y", ".", " ", "r" }

\* Raw names given whole.
ExampleNames ==
    { INGRID_LOPEZ, ING_MARIA_LOPEZ, Dr_Juan_Perez, DE_LA_CRUZ_JUAN,
      JUAN_DE_LA_CRUZ, Dra_Ana_Guemes }

\* The longest typed raw name.
MaxRawLen == 4

\* full_name values of roster records, as ProfessorRatingsParser writes them.
RosterNames ==
    { JUAN_PEREZ, JUAN_CARLOS_PEREZ, JUAN_DE_LA_CRUZ, PEREZ_GARCIA_JUAN,
      JUAN_PEREZ_PEREZ, DE_LA }

\* Raw professor names of group records.
QueryNames ==
    { Dr_Juan_Perez, JUAN_PEREZ, JUAN_PEREZ_GARCIA, DE_LA_CRUZ_JUAN,
      ANA_LUNA, DE_LA, <<>> }

\* The most records a roster holds.
MaxRoster == 2

\* The id of the i-th record of a roster.
RosterId(i) == <<"7", "8", "9", "10">>[i]

VARIABLES
    raw,                    \* normalization: the name given
    op,                     \* normalization: the function applied to it
    out,                    \* normalization: what the function returned
    out2,                   \* normalization: the linker's normalization of out
    professors,             \* linker: self.professors
    professor_by_normalized,\* linker: self.professor_by_normalized
    professor_by_tokens,    \* linker: self.professor_by_tokens
    indexed,                \* linker: _build_indexes has run
    query,                  \* linker: the last name given to _match_professor
    match,                  \* linker: what _match_professor returned for it
    observations,           \* parser: the entries parse() returned
    consolidated,           \* parser: what consolidate() returned for them
    consolidate_done,       \* parser: consolidate() has returned
    groups_dir,             \* data directory: groups/ exists
    group_files,            \* data directory: groups/<course>.json
    ratings_file,           \* data directory: professor_ratings.json
    index_file,             \* data directory: professor_ratings_index.json
    link_result,            \* the linking pass that ran last, if nothing ran since
    pool_ratings,           \* worker pool: the professor_ratings every call is given
    pool_linkers,           \* worker pool: the linker objects the calls construct
    pool_calls,             \* worker pool: each save_groups call, where it is
    pool_files              \* worker pool: groups/<course>.json as saved

normVars == <<raw, op, out, out2>>
linkerVars == <<professors, professor_by_normalized, professor_by_tokens,
                indexed, query, match>>
consVars == <<observations, consolidated, consolidate_done>>
dirVars == <<groups_dir, group_files, ratings_file, index_file, link_result>>
poolVars == <<pool_ratings, pool_linkers, pool_calls, pool_files>>
vars == <<normVars, linkerVars, consVars, dirVars, poolVars>>

NormIdle == raw = <<>> /\ op = "idle" /\ out = <<>> /\ out2 = <<>>

LinkerIdle ==
    /\ professors = <<>>
    /\ professor_by_normalized = <<>>
    /\ professor_by_tokens = <<>>
    /\ indexed = FALSE
    /\ query = <<>>
    /\ match = NoMatch

(***************************************************************************)
(* The data directory.                                                     *)
(***************************************************************************)
\* No linking pass has run.
NoLinkResult ==
    [ran |-> FALSE, ok |-> FALSE, matched |-> 0, total |-> 0, unmatched |-> 0,
     rate |-> [computed |-> FALSE, percent |-> 0, error |-> FALSE],
     clean |-> TRUE, matches |-> {}, match_calls |-> 0, written |-> {}, unread |-> {}, raised |-> {},
     failed |-> {}, roster |-> <<>>,
     before |-> [c \in Courses |-> FileAbsent],
     repeat |-> FALSE, prev_clean |-> FALSE, prev_counts |-> <<0, 0, 0>>]

DirIdle ==
    /\ groups_dir = FALSE
    /\ group_files = [c \in Courses |-> FileAbsent]
    /\ ratings_file = FileAbsent
    /\ index_file = FileAbsent
    /\ link_result = NoLinkResult

ConsIdle ==
    /\ observations = <<>>
    /\ consolidated = <<>>
    /\ consolidate_done = FALSE

\* ProfessorGroupsLinker.__init__, lines 25-27.
NewLinker == [professors |-> <<>>, by_normalized |-> <<>>, by_tokens |-> <<>>]

\* A save_groups call that has not been made.
NoCall == [pc |-> "idle", professor_names |-> <<>>, k |-> 0, data |-> <<>>,
           saved |-> FALSE]

PoolIdle ==
    /\ pool_ratings = <<>>
    /\ pool_linkers = [c \in Courses |-> NewLinker]
    /\ pool_calls = [c \in Courses |-> NoCall]
    /\ pool_files = [c \in Courses |-> FileAbsent]

(***************************************************************************)
(* Normalization: a raw name is typed or given, then one function is       *)
(* applied to it.                                                          *)
(***************************************************************************)
InitNorm ==
    /\ raw \in ExampleNames \cup { <<>> }
    /\ op = "input"
    /\ out = <<>>
    /\ out2 = <<>>
    /\ LinkerIdle
    /\ ConsIdle
    /\ DirIdle
    /\ PoolIdle

TypeChar(c) ==
    /\ op = "input"
    /\ raw \notin ExampleNames
    /\ Len(raw) < MaxRawLen
    /\ raw' = Append(raw, c)
    /\ UNCHANGED <<op, out, out2, linkerVars, consVars, dirVars, poolVars>>

RemoveTitle ==
    /\ op = "input"
    /\ op' = "remove_academic_title"
    /\ out' = remove_academic_title(raw)
    /\ UNCHANGED <<raw, out2, linkerVars, consVars, dirVars, poolVars>>

NormalizeForMatching ==
    /\ op = "input"
    /\ op' = "normalize_name_for_matching"
    /\ out' = normalize_name_for_matching(raw)
    /\ UNCHANGED <<raw, out2, linkerVars, consVars, dirVars, poolVars>>

NormalizeParser ==
    /\ op = "input"
    /\ op' = "parser_normalize_name"
    /\ out' = Parser_normalize_name(raw)
    /\ UNCHANGED <<raw, out2, linkerVars, consVars, dirVars, poolVars>>

NormalizeLinker ==
    /\ op = "input"
    /\ op' = "linker_normalize_name"
    /\ out' = Linker_normalize_name(raw)
    /\ UNCHANGED <<raw, out2, linkerVars, consVars, dirVars, poolVars>>

NormalizeLinkerAgain ==
    /\ op = "linker_normalize_name"
    /\ op' = "linker_normalize_name_twice"
    /\ out2' = Linker_normalize_name(out)
    /\ UNCHANGED <<raw, out, linkerVars, consVars, dirVars, poolVars>>

NextNorm ==
    \/ \E c \in TypedChars : TypeChar(c)
    \/ RemoveTitle
    \/ NormalizeForMatching
    \/ NormalizeParser
    \/ NormalizeLinker
    \/ NormalizeLinkerAgain

SpecNorm == InitNorm /\ [][NextNorm]_vars

\* C7: the linker's normalization is idempotent: applied to its own result
\* it returns that result unchanged.
C7_NormalizeIdempotent ==
    op = "linker_normalize_name_twice" => out2 = out

\* A letter, as str.isalpha() tells it, among the characters of the model.
IsLetter(c) ==
    \E i \in 1..Len(UpperChars) : c = UpperChars[i] \/ c = LowerChars[i]

\* C8: a leading title is stripped only when whitespace or the end of the
\* name follows it: "INGRID LOPEZ" normalizes, connectors kept, to itself
\* and "ING. MARIA LOPEZ" to "MARIA LOPEZ"; and when a name starts with a
\* title of the table that a letter follows directly, remove_academic_title
\* does not return the name with that title cut off.
C8_TitleBoundary ==
    /\ (op = "normalize_name_for_matching" /\ raw = INGRID_LOPEZ)
          => out = INGRID_LOPEZ
    /\ (op = "normalize_name_for_matching" /\ raw = ING_MARIA_LOPEZ)
          => out = MARIA_LOPEZ
    /\ op = "remove_academic_title" =>
          \A title \in ACADEMIC_TITLES :
             LET name == Strip(raw)
             IN  ( /\ StartsWith(Upper(name), title)
                   /\ Len(name) > Len(title)
                   /\ IsLetter(name[Len(title) + 1]) )
                 => out # Drop(name, Len(title))

\* C8: a typed name that starts with the title "DR", the letter "Y" right
\* after it, has gone through remove_academic_title and come back whole.
C8_Witness ==
    /\ op = "remove_academic_title"
    /\ raw = <<"D", "R", "Y">>
    /\ out = raw

\* The places of a name that hold the letter U, accented or not, in either
\* case.
PlacesOfU(name) ==
    { i \in 1..Len(name) : name[i] \in { "U", "u", "Ú", "ú", "Ü", "ü" } }

\* C26: the normalization that makes a roster record's full_name turns
\* every "ü" and "Ü" of the raw name into "U" and drops none: the full_name
\* has as many letters U as the raw name, its title removed, has letters U
\* accented or not; "Dra. Ana Güemes (FIME)" gives "ANA GUEMES FIME".
C26_UmlautKept ==
    op = "parser_normalize_name" =>
        /\ Cardinality(PlacesOfU(out)) = Cardinality(PlacesOfU(remove_academic_title(raw)))
        /\ raw = Dra_Ana_Guemes =>
              out = <<"A", "N", "A", " ", "G", "U", "E", "M", "E", "S", " ", "F", "I", "M", "E">>

(***************************************************************************)
(* The linker object: a roster is set, the indexes are built, names are    *)
(* matched.                                                                *)
(***************************************************************************)
\* A roster record, models.Professor as a dict; first_name and last_name are
\* told apart by the id of the entry they came with.
ProfessorRecord(id, name, num_ratings, rating) ==
    [id |-> id,
     full_name |-> name,
     first_name |-> <<"first_name", id>>,
     last_name |-> <<"last_name", id>>,
     num_ratings |-> num_ratings,
     rating |-> rating]

Professor(i, name) == ProfessorRecord(RosterId(i), name, 2, 500)

Rosters ==
    UNION { { [i \in 1..n |-> Professor(i, names[i])] :
                names \in [1..n -> RosterNames] } : n \in 0..MaxRoster }

InitMatch ==
    /\ professors \in Rosters
    /\ professor_by_normalized = <<>>
    /\ professor_by_tokens = <<>>
    /\ indexed = FALSE
    /\ query = <<>>
    /\ match = NoMatch
    /\ NormIdle
    /\ ConsIdle
    /\ DirIdle
    /\ PoolIdle

BuildIndexes ==
    /\ ~indexed
    /\ indexed' = TRUE
    /\ professor_by_normalized' = BuildByNormalized(professors, Len(professors))
    /\ professor_by_tokens' = BuildByTokens(professors, Len(professors))
    /\ UNCHANGED <<professors, query, match, normVars, consVars, dirVars, poolVars>>

MatchProfessor(professor_name) ==
    /\ indexed
    /\ query' = professor_name
    /\ \E m \in { Linker_match_professor(professors, professor_by_normalized,
                                            professor_by_tokens, professor_name) } :
          /\ match' = m
          /\ professors' = ProfessorsAfterMatch(professors, m)
    /\ UNCHANGED <<professor_by_normalized, professor_by_tokens,
                   indexed, normVars, consVars, dirVars, poolVars>>

NextMatch ==
    \/ BuildIndexes
    \/ \E n \in QueryNames : MatchProfessor(n)

SpecMatch == InitMatch /\ [][NextMatch]_vars

\* The tokens of the query, normalized with connector stripping.
QueryTokens == Linker_get_tokens(Linker_normalize_name(query))

\* The roster records the token-subset stage collects for the query: those
\* whose normalized name's tokens are all among the query's.
Candidates ==
    { i \in 1..Len(professors) :
         Linker_get_tokens(Linker_normalize_name(professors[i].full_name))
            \subseteq QueryTokens }

\* The query has been matched, it normalizes to a non-empty name, and no
\* roster record is filed under that name in the exact index.
PastExactStage ==
    /\ indexed
    /\ Linker_normalize_name(query) # <<>>
    /\ \A i \in 1..Len(professors) :
          Linker_normalize_name(professors[i].full_name)
             # Linker_normalize_name(query)

\* The number of whitespace-separated tokens of a name, repeats counted.
WordCount(name) == Len(Split(name))

\* The number of distinct whitespace-separated tokens of a name.
DistinctWordCount(name) ==
    Cardinality({ Split(name)[i] : i \in 1..Len(Split(name)) })

\* C5 as stated: when the token-subset stage collects two or more candidates,
\* the match is flagged ambiguous and returns a candidate no other candidate
\* has more tokens in its full_name than.
C5_MostTokensWins ==
    (PastExactStage /\ Cardinality(Candidates) >= 2) =>
        /\ match.stage = "ambiguous"
        /\ \E i \in Candidates : match.prof = professors[i]
        /\ \A j \in Candidates :
              WordCount(professors[j].full_name) <= WordCount(match.prof.full_name)

\* C5 amended: when the token-subset stage collects two or more candidates,
\* the match is flagged ambiguous and returns a candidate no other candidate
\* has more distinct tokens in its full_name than; with "JUAN PEREZ" and
\* "PEREZ GARCIA JUAN" in the roster, "JUAN PEREZ GARCIA" gets the latter.
C5_MostDistinctTokensWins ==
    /\ (PastExactStage /\ Cardinality(Candidates) >= 2) =>
          /\ match.stage = "ambiguous"
          /\ \E i \in Candidates : match.prof = professors[i]
          /\ \A j \in Candidates :
                DistinctWordCount(professors[j].full_name)
                   <= DistinctWordCount(match.prof.full_name)
    /\ ( /\ indexed
         /\ query = JUAN_PEREZ_GARCIA
         /\ Len(professors) = 2
         /\ professors[1].full_name = JUAN_PEREZ
         /\ professors[2].full_name = PEREZ_GARCIA_JUAN )
       => match.prof = professors[2]

\* C5: "JUAN PEREZ GARCIA" has been matched against the roster of "JUAN
\* PEREZ" and "PEREZ GARCIA JUAN", both candidates, and got the second.
C5_Witness ==
    /\ indexed
    /\ query = JUAN_PEREZ_GARCIA
    /\ Len(professors) = 2
    /\ professors[1].full_name = JUAN_PEREZ
    /\ professors[2].full_name = PEREZ_GARCIA_JUAN
    /\ Candidates = { 1, 2 }
    /\ match.stage = "ambiguous"
    /\ match.prof.id = "8"

\* C6 as stated: when the exact stage and the token-subset stage yield
\* nothing, the match is the first roster record whose token set is a subset
\* of the query's, and no match if there is none.
C6_RosterSubsetOfQuery ==
    (PastExactStage /\ Candidates = {}) =>
        LET found == { i \in 1..Len(professors) :
                          Linker_get_tokens(Linker_normalize_name(professors[i].full_name))
                             \subseteq QueryTokens }
        IN  IF found = {}
            THEN match.stage = "none"
            ELSE match.prof = professors[CHOOSE i \in found : \A j \in found : i <= j]

\* C6 amended: when the exact stage and the token-subset stage yield nothing,
\* the match is the first roster record, in roster order, whose full_name as
\* stored has every token of the query among its whitespace-separated tokens,
\* and no match if there is none.
C6_QuerySubsetOfRoster ==
    (PastExactStage /\ Candidates = {}) =>
        LET found == { i \in 1..Len(professors) :
                          \A t \in QueryTokens :
                             \E k \in 1..Len(Split(professors[i].full_name)) :
                                Split(professors[i].full_name)[k] = t }
        IN  IF found = {}
            THEN match = NoMatch
            ELSE /\ match.stage = "reverse"
                 /\ match.prof = professors[CHOOSE i \in found : \A j \in found : i <= j]

\* C6: "JUAN PEREZ" has been matched against the roster of "JUAN CARLOS
\* PEREZ" and "PEREZ GARCIA JUAN": neither is filed under the query nor a
\* candidate, both hold the query's tokens, and the first is returned.
C6_Witness ==
    /\ PastExactStage
    /\ Candidates = {}
    /\ query = JUAN_PEREZ
    /\ Len(professors) = 2
    /\ professors[1].full_name = JUAN_CARLOS_PEREZ
    /\ professors[2].full_name = PEREZ_GARCIA_JUAN
    /\ match.stage = "reverse"
    /\ match.prof.id = "7"

\* The roster holds a record named "JUAN DE LA CRUZ" and the indexes are
\* built.
HasJuanDeLaCruz ==
    /\ indexed
    /\ \E i \in 1..Len(professors) : professors[i].full_name = JUAN_DE_LA_CRUZ

\* C9 as stated: a roster entry "JUAN DE LA CRUZ" is in the exact index under
\* "JUAN CRUZ", and the query "DE LA CRUZ, JUAN" is resolved to it by the
\* exact stage.
C9_ExactMatch ==
    HasJuanDeLaCruz =>
        /\ JUAN_CRUZ \in DOMAIN professor_by_normalized
        /\ professor_by_normalized[JUAN_CRUZ].full_name = JUAN_DE_LA_CRUZ
        /\ query = DE_LA_CRUZ_JUAN =>
              /\ match.stage = "exact"
              /\ match.prof.full_name = JUAN_DE_LA_CRUZ

\* C9 amended: a roster entry "JUAN DE LA CRUZ" is in the exact index under
\* "JUAN CRUZ"; the query "DE LA CRUZ, JUAN" normalizes to "CRUZ JUAN", which
\* the exact stage does not find, and is resolved to a record of that name by
\* the token-subset stage: as the only candidate when the roster holds no
\* other record.
C9_TokenMatch ==
    HasJuanDeLaCruz =>
        /\ JUAN_CRUZ \in DOMAIN professor_by_normalized
        /\ professor_by_normalized[JUAN_CRUZ].full_name = JUAN_DE_LA_CRUZ
        /\ query = DE_LA_CRUZ_JUAN =>
              /\ Linker_normalize_name(query) = CRUZ_JUAN
              /\ CRUZ_JUAN \notin DOMAIN professor_by_normalized
              /\ match.stage \in { "token", "ambiguous" }
              /\ match.prof.full_name = JUAN_DE_LA_CRUZ
              /\ Len(professors) = 1 => match.stage = "token"

\* C9: "DE LA CRUZ, JUAN" has been matched against the roster of the one
\* record "JUAN DE LA CRUZ" and resolved to it.
C9_Witness ==
    /\ HasJuanDeLaCruz
    /\ Len(professors) = 1
    /\ query = DE_LA_CRUZ_JUAN
    /\ match.prof.id = "7"

\* The roster positions filed under the normalized query in the exact index.
ExactHits ==
    { i \in 1..Len(professors) :
         Linker_normalize_name(professors[i].full_name)
            = Linker_normalize_name(query) }

\* The roster positions the reverse-subset stage accepts for the query.
ReverseHits ==
    { i \in 1..Len(professors) :
         QueryTokens \subseteq Linker_get_tokens(professors[i].full_name) }

\* C13 as stated: whenever the normalized query is a key of the exact index,
\* the match is the record stored under that key, by the exact stage.
C13_ExactKeyAlwaysHit ==
    (indexed /\ query # <<>>
        /\ Linker_normalize_name(query) \in DOMAIN professor_by_normalized) =>
        /\ match.stage = "exact"
        /\ match.prof = professor_by_normalized[Linker_normalize_name(query)]

\* C13 amended: a query that normalizes to the empty name has no match; for
\* any other query the stages run in the order exact, token-subset,
\* reverse-subset, each only when the one before gave nothing, and a
\* normalized query that is a key of the exact index returns the record
\* stored under the key (the last roster record filed under it), whatever
\* the token stages would give.
C13_ExactFirstUnlessEmpty ==
    (indexed /\ query # <<>>) =>
        IF Linker_normalize_name(query) = <<>>
        THEN match = NoMatch
        ELSE /\ ExactHits # {} =>
                   /\ match.stage = "exact"
                   /\ match.prof
                         = professor_by_normalized[Linker_normalize_name(query)]
                   /\ \E i \in ExactHits :
                         /\ match.prof = professors[i]
                         /\ \A j \in ExactHits : j <= i
             /\ (ExactHits = {} /\ Candidates # {}) =>
                   match.stage \in { "token", "ambiguous" }
             /\ (ExactHits = {} /\ Candidates = {} /\ ReverseHits # {}) =>
                   match.stage = "reverse"
             /\ (ExactHits = {} /\ Candidates = {} /\ ReverseHits = {}) =>
                   match = NoMatch

\* C13: the query "JUAN PEREZ" has hit the exact index with a roster in
\* which the token-subset stage would collect two records and return the
\* other one.
C13_Witness ==
    /\ indexed
    /\ query = JUAN_PEREZ
    /\ professors = << Professor(1, JUAN_PEREZ_PEREZ), Professor(2, JUAN_PEREZ) >>
    /\ Cardinality(Candidates) = 2
    /\ match.stage = "exact"
    /\ match.prof.id = "8"

\* The records listed in the token index under the keys whose tokens are all
\* among the query's.
TokenPool ==
    UNION { { professor_by_tokens[e].profs[j] :
                 j \in 1..Len(professor_by_tokens[e].profs) } :
            e \in { e \in 1..Len(professor_by_tokens) :
                       Linker_get_tokens(professor_by_tokens[e].key)
                          \subseteq QueryTokens } }

\* C19: when the exact stage misses, the candidates of the token-subset
\* stage are the records the token index lists under keys whose tokens are
\* all among the query's, which are the roster records whose normalized
\* name has no token the query lacks; one candidate is returned as a match
\* that is not ambiguous, two or more give an ambiguous match among them,
\* and none lets the cascade go on to the reverse-subset stage.
C19_TokenSubsetStage ==
    PastExactStage =>
        /\ TokenPool = { professors[i] : i \in Candidates }
        /\ Cardinality(TokenPool) = 1 =>
              /\ match.stage = "token"
              /\ match.prof \in TokenPool
        /\ Cardinality(TokenPool) >= 2 =>
              /\ match.stage = "ambiguous"
              /\ match.prof \in TokenPool
        /\ TokenPool = {} =>
              /\ match.stage \in { "reverse", "none" }
              /\ match.stage = "reverse" <=> ReverseHits # {}

\* C19: the query "JUAN PEREZ GARCIA" has missed the exact index and the
\* token-subset stage has returned the one record, "JUAN PEREZ", whose
\* tokens are all among the query's, of a roster of two.
C19_Witness ==
    /\ PastExactStage
    /\ query = JUAN_PEREZ_GARCIA
    /\ Len(professors) = 2
    /\ TokenPool = { Professor(1, JUAN_PEREZ) }
    /\ match.stage = "token"
    /\ match.prof.id = "7"

FiledUnder(k) ==
    { i \in 1..Len(professors) :
         Linker_normalize_name(professors[i].full_name) = k }

\* C23: after _build_indexes the keys of the exact index are the
\* connector-stripped normalized full_names of the roster records, none
\* missing, and the record stored under a key is the last roster record
\* with that normalized name.
C23_ExactIndexLastWins ==
    indexed =>
        /\ DOMAIN professor_by_normalized
              = { Linker_normalize_name(professors[i].full_name) :
                     i \in 1..Len(professors) }
        /\ \A k \in DOMAIN professor_by_normalized :
              \E i \in FiledUnder(k) :
                 /\ professor_by_normalized[k] = professors[i]
                 /\ \A j \in FiledUnder(k) : j <= i

\* C23: the indexes have been built over two records of one normalized name
\* and a query for it has returned the second.
C23_Witness ==
    /\ indexed
    /\ Len(professors) = 2
    /\ FiledUnder(JUAN_PEREZ) = { 1, 2 }
    /\ professor_by_normalized[JUAN_PEREZ].id = "8"
    /\ query = Dr_Juan_Perez

\* The places of the token index: an entry and a position in its list.
TokenIndexPlaces ==
    UNION { { <<e, j>> : j \in 1..Len(professor_by_tokens[e].profs) } :
            e \in 1..Len(professor_by_tokens) }

\* The tokens of the connector-stripped normalized full_name of a record.
RecordTokens(prof) == Linker_get_tokens(Linker_normalize_name(prof.full_name))

\* The place of the i-th roster record in the token index.
PlaceOf(i) ==
    CHOOSE pl \in TokenIndexPlaces :
       professor_by_tokens[pl[1]].profs[pl[2]] = professors[i]

\* C24: after _build_indexes every roster record is at exactly one place of
\* the token index, in the list under the key made of the tokens of its
\* connector-stripped normalized name, each once, sorted and joined by single
\* spaces; two records are in one list exactly when their token sets are
\* equal, and every list is in roster order.
C24_TokenIndexStructure ==
    indexed =>
        /\ \A i \in 1..Len(professors) :
              Cardinality({ pl \in TokenIndexPlaces :
                  professor_by_tokens[pl[1]].profs[pl[2]] = professors[i] }) = 1
        /\ \A pl \in TokenIndexPlaces :
              \E i \in 1..Len(professors) :
                 professor_by_tokens[pl[1]].profs[pl[2]] = professors[i]
        /\ \A i \in 1..Len(professors) :
              LET key == professor_by_tokens[PlaceOf(i)[1]].key
                  words == Split(key)
              IN  /\ { words[n] : n \in 1..Len(words) } = RecordTokens(professors[i])
                  /\ Join(words) = key
                  /\ \A n \in 1..(Len(words) - 1) :
                        StrLessEq(words[n], words[n + 1]) /\ words[n] # words[n + 1]
        /\ \A i, j \in 1..Len(professors) :
              /\ PlaceOf(i)[1] = PlaceOf(j)[1]
                    <=> RecordTokens(professors[i]) = RecordTokens(professors[j])
              /\ (PlaceOf(i)[1] = PlaceOf(j)[1] /\ i < j) => PlaceOf(i)[2] < PlaceOf(j)[2]

\* C24: the indexes have been built over "JUAN PEREZ PEREZ" and "JUAN PEREZ",
\* whose token sets are equal, and both are in the list under "JUAN PEREZ",
\* in roster order.
C24_Witness ==
    /\ indexed
    /\ professor_by_tokens
          = << [key |-> JUAN_PEREZ,
                profs |-> << Professor(1, JUAN_PEREZ_PEREZ), Professor(2, JUAN_PEREZ) >>] >>

\* C27: a record the token-subset stage returns has at least one token in
\* common with the query, and a roster record whose normalized name is
\* empty, such as "DE LA", is never returned for any query.
C27_TokenSubsetSound ==
    /\ match.stage \in { "token", "ambiguous" } =>
          Linker_get_tokens(Linker_normalize_name(match.prof.full_name))
             \cap Linker_get_tokens(Linker_normalize_name(query)) # {}
    /\ match.stage # "none" => Linker_normalize_name(match.prof.full_name) # <<>>

\* C30: _match_professor returns no match or a record of the roster the
\* indexes were built from, the record itself with every field as the
\* roster holds it, so the id a linking pass takes from a match is the id of
\* a record of the roster loaded for that pass; no match carries no id.
C30_MatchIsRosterRecord ==
    indexed =>
        /\ match.stage # "none" =>
              \E i \in 1..Len(professors) :
                 /\ match.prof = professors[i]
                 /\ match.prof.id = RosterId(i)
        /\ match.stage = "none" => match.prof.id = None

\* C30: the query "DE LA CRUZ, JUAN" has been matched by the token-subset
\* stage to the second record of a roster of two, "JUAN DE LA CRUZ".
C30_Witness ==
    /\ indexed
    /\ Len(professors) = 2
    /\ query = DE_LA_CRUZ_JUAN
    /\ match.stage = "token"
    /\ match.prof = professors[2]
    /\ match.prof.full_name = JUAN_DE_LA_CRUZ

(***************************************************************************)
(* The professors parser: entries are parsed, then consolidated.           *)
(***************************************************************************)
\* The normalized names, rating counts and ratings (in hundredths) of parsed
\* entries. The two names differ by a connector only.
ObservedNames == { JUAN_PEREZ, JUAN_DE_PEREZ }
ObservedCounts == { 0, 1, 10, 30 }
ObservedRatings == { 400, 405, 500 }

\* The most entries parse() returns.
MaxObservations == 3

\* The id of the i-th parsed entry.
ObservationId(i) == <<"1", "2", "3", "4", "5">>[i]

InitCons ==
    /\ observations = <<>>
    /\ consolidated = <<>>
    /\ consolidate_done = FALSE
    /\ NormIdle
    /\ LinkerIdle
    /\ DirIdle
    /\ PoolIdle

\* ProfessorRatingsParser._process_entry appending to parse()'s list.
ProcessEntry(name, num_ratings, rating) ==
    /\ ~consolidate_done
    /\ Len(observations) < MaxObservations
    /\ observations' = Append(observations,
          ProfessorRecord(ObservationId(Len(observations) + 1), name,
                          num_ratings, rating))
    /\ UNCHANGED <<consolidated, consolidate_done, normVars, linkerVars, dirVars, poolVars>>

Consolidate ==
    /\ ~consolidate_done
    /\ \E tie_up \in [ObservedNames -> BOOLEAN] :
          consolidated' = Parser_consolidate(observations, tie_up)
    /\ consolidate_done' = TRUE
    /\ UNCHANGED <<observations, normVars, linkerVars, dirVars, poolVars>>

NextCons ==
    \/ \E name \in ObservedNames, n \in ObservedCounts, r \in ObservedRatings :
          ProcessEntry(name, n, r)
    \/ Consolidate

SpecCons == InitCons /\ [][NextCons]_vars

\* The parsed entries of a name that pass consolidate's filter.
Members(name) ==
    { i \in 1..Len(observations) :
         /\ observations[i].full_name = name
         /\ observations[i].num_ratings > 1 }

\* The sum of F(i) over the members.
RECURSIVE SumOfMembers(_, _)
SumOfMembers(F(_), members) ==
    IF members = {} THEN 0
    ELSE LET i == CHOOSE i \in members : TRUE
         IN  F(i) + SumOfMembers(F, members \ {i})

\* C10: two or more surviving entries of one normalized name become one
\* record whose num_ratings is the sum of theirs, whose rating is their
\* mean weighted by num_ratings and rounded to hundredths, and whose id and
\* name fields are those of an entry with the most ratings; {id 1, 10
\* ratings, 4.0} and {id 2, 30 ratings, 5.0} give 40 ratings, 4.75, id 2.
C10_WeightedMerge ==
    consolidate_done =>
        /\ \A name \in ObservedNames :
              Cardinality(Members(name)) >= 2 =>
                 LET Count(i) == observations[i].num_ratings
                     Weighted(i) == observations[i].rating * observations[i].num_ratings
                     total == SumOfMembers(Count, Members(name))
                     weighted == SumOfMembers(Weighted, Members(name))
                     merged == { k \in 1..Len(consolidated) :
                                    consolidated[k].full_name = name }
                 IN  /\ Cardinality(merged) = 1
                     /\ \A k \in merged :
                           /\ consolidated[k].num_ratings = total
                           /\ 2 * consolidated[k].rating * total <= 2 * weighted + total
                           /\ 2 * consolidated[k].rating * total >= 2 * weighted - total
                           /\ \E i \in Members(name) :
                                 /\ \A j \in Members(name) : Count(j) <= Count(i)
                                 /\ consolidated[k].id = observations[i].id
                                 /\ consolidated[k].first_name = observations[i].first_name
                                 /\ consolidated[k].last_name = observations[i].last_name
        /\ observations = << ProfessorRecord("1", JUAN_PEREZ, 10, 400),
                             ProfessorRecord("2", JUAN_PEREZ, 30, 500) >>
              => /\ Len(consolidated) = 1
                 /\ consolidated[1].num_ratings = 40
                 /\ consolidated[1].rating = 475
                 /\ consolidated[1].id = "2"

\* C10: the entries {id 1, 10 ratings, 4.0} and {id 2, 30 ratings, 5.0} of
\* one name have been consolidated into one record.
C10_Witness ==
    /\ consolidate_done
    /\ observations = << ProfessorRecord("1", JUAN_PEREZ, 10, 400),
                         ProfessorRecord("2", JUAN_PEREZ, 30, 500) >>
    /\ Len(consolidated) = 1
    /\ consolidated[1].num_ratings = 40

\* C11: an entry with num_ratings <= 1 never reaches the consolidated list:
\* no consolidated record carries its id, a name whose entries all have
\* num_ratings <= 1 has no record, and the num_ratings, rating and id of
\* every record come from the entries of its name with num_ratings > 1 only.
C11_SingleRatingExcluded ==
    consolidate_done =>
        /\ \A i \in 1..Len(observations) :
              observations[i].num_ratings <= 1 =>
                 \A k \in 1..Len(consolidated) :
                    consolidated[k].id # observations[i].id
        /\ \A name \in ObservedNames :
              Members(name) = {} =>
                 \A k \in 1..Len(consolidated) : consolidated[k].full_name # name
        /\ \A k \in 1..Len(consolidated) :
              LET members == Members(consolidated[k].full_name)
                  Count(i) == observations[i].num_ratings
                  Weighted(i) == observations[i].rating * observations[i].num_ratings
                  total == SumOfMembers(Count, members)
                  weighted == SumOfMembers(Weighted, members)
              IN  /\ members # {}
                  /\ consolidated[k].num_ratings = total
                  /\ 2 * consolidated[k].rating * total <= 2 * weighted + total
                  /\ 2 * consolidated[k].rating * total >= 2 * weighted - total
                  /\ \E i \in members : consolidated[k].id = observations[i].id

\* C11: a consolidation has run over a name whose only entry has one rating
\* and a name with an entry of at most one rating next to an entry that
\* passes the filter.
C11_Witness ==
    /\ consolidate_done
    /\ \E name \in ObservedNames :
          /\ Members(name) = {}
          /\ \E i \in 1..Len(observations) :
                observations[i].full_name = name /\ observations[i].num_ratings = 1
    /\ \E i, j \in 1..Len(observations) :
          /\ observations[i].full_name = observations[j].full_name
          /\ observations[i].num_ratings <= 1
          /\ observations[j].num_ratings > 1
    /\ Len(consolidated) = 1

\* C25: consolidate returns exactly one record for each distinct full_name
\* among the entries that pass its filter and none for any other name, so
\* no two records share a full_name; names are grouped by string equality,
\* so JUAN PEREZ and JUAN DE PEREZ, which the linker's normalization makes
\* equal, stay two records; an entry alone in its group is returned with
\* every field as parsed.
C25_OneRecordPerName ==
    consolidate_done =>
        /\ \A name \in ObservedNames :
              Cardinality({ k \in 1..Len(consolidated) : consolidated[k].full_name = name })
                 = IF Members(name) = {} THEN 0 ELSE 1
        /\ \A k \in 1..Len(consolidated) : consolidated[k].full_name \in ObservedNames
        /\ \A k, l \in 1..Len(consolidated) :
              consolidated[k].full_name = consolidated[l].full_name => k = l
        /\ \A name \in ObservedNames : \A i \in Members(name) :
              Members(name) = {i} =>
                 \E k \in 1..Len(consolidated) : consolidated[k] = observations[i]

\* C25: a consolidation has returned two records for three entries: two
\* entries of JUAN PEREZ merged and one entry of JUAN DE PEREZ as parsed.
C25_Witness ==
    /\ consolidate_done
    /\ Linker_normalize_name(JUAN_PEREZ) = Linker_normalize_name(JUAN_DE_PEREZ)
    /\ Cardinality(Members(JUAN_PEREZ)) = 2
    /\ \E i \in 1..Len(observations) :
          /\ Members(JUAN_DE_PEREZ) = {i}
          /\ Len(consolidated) = 2
          /\ \E k \in 1..2 : consolidated[k] = observations[i]

(***************************************************************************)
(* The data directory over time: the groups scraper saves, the roster      *)
(* source puts professor_ratings.json, a group file is damaged, a linking  *)
(* pass runs.                                                              *)
(***************************************************************************)
Prof7 == ProfessorRecord("7", JUAN_PEREZ, 10, 400)
Prof8 == ProfessorRecord("8", JUAN_CARLOS_PEREZ, 30, 500)

\* The rosters the roster source puts.
LinkRosters == { <<>>, <<Prof7>>, <<Prof8>> }

\* Two groups of "Dr. Juan Pérez" and one without a professor.
ScenarioGroups == << Dr_Juan_Perez, Dr_Juan_Perez, <<>> >>

\* The raw professor names of the groups save_groups is given for one
\* course; with no group it writes the empty list.
GroupLists ==
    { ScenarioGroups, <<JUAN_PEREZ>>, <<JUAN_PEREZ, <<>>>>,
      <<Dr_Juan_Perez, JUAN_PEREZ>>, << <<>> >>, <<>> }

Init ==
    /\ DirIdle
    /\ NormIdle
    /\ LinkerIdle
    /\ ConsIdle
    /\ PoolIdle

\* The roster source puts, replaces or removes professor_ratings.json.
PutRatingsFile(file) ==
    /\ ratings_file # file
    /\ ratings_file' = file
    /\ link_result' = NoLinkResult
    /\ UNCHANGED <<groups_dir, group_files, index_file,
                   normVars, linkerVars, consVars, poolVars>>

\* DataStorage.save_groups with the ratings load_professor_ratings returns,
\* after DataStorage.__init__; saved is whether _save_json succeeds.
SaveGroups(course, professor_names) ==
    /\ \E saved \in BOOLEAN :
          group_files' =
              IF saved
              THEN [group_files EXCEPT ![course] =
                      FileOf(Storage_save_groups_data(course, professor_names,
                                Storage_load_professor_ratings(index_file)))]
              ELSE group_files
    /\ groups_dir' = TRUE
    /\ link_result' = NoLinkResult
    /\ UNCHANGED <<ratings_file, index_file, normVars, linkerVars, consVars, poolVars>>

\* A group file becomes unparseable.
DamageGroupFile(course) ==
    /\ group_files[course].status = "ok"
    /\ group_files' = [group_files EXCEPT ![course] = FileCorrupt]
    /\ link_result' = NoLinkResult
    /\ UNCHANGED <<groups_dir, ratings_file, index_file,
                   normVars, linkerVars, consVars, poolVars>>

\* A value of a group file that holds JSON objects only stops being one.
DamageGroupRecord(course, i) ==
    /\ group_files[course].status = "ok"
    /\ i \in 1..Len(group_files[course].data)
    /\ \A j \in 1..Len(group_files[course].data) :
          IsDict(group_files[course].data[j])
    /\ group_files' = [group_files EXCEPT ![course].data[i] = NotADict]
    /\ link_result' = NoLinkResult
    /\ UNCHANGED <<groups_dir, ratings_file, index_file,
                   normVars, linkerVars, consVars, poolVars>>

\* link_professors_groups: ProfessorGroupsLinker.link and the match rate.
LinkPass ==
    \E matches \in { Linker_match_all(Linker_load_professors(ratings_file),
                                        ReadableNames(groups_dir, group_files)) } :
    \E faults \in Faults :
    \E pass \in { Linker_process_groups(groups_dir, group_files, matches, faults) } :
    \E rate \in { MatchRate(pass.matched, pass.total) } :
        /\ pass.possible
        /\ group_files' = pass.group_files
        /\ link_result' =
              [ran |-> TRUE, ok |-> ~rate.error,
               matched |-> pass.matched, total |-> pass.total,
               unmatched |-> pass.unmatched,
               rate |-> rate,
               clean |-> pass.clean,
               matches |-> pass.professor_matches,
               match_calls |-> pass.match_calls,
               written |-> pass.written,
               unread |-> pass.unread,
               raised |-> pass.raised,
               failed |-> pass.failed,
               roster |-> Linker_load_professors(ratings_file),
               before |-> group_files,
               repeat |-> link_result.ran,
               prev_clean |-> link_result.ran /\ link_result.clean,
               prev_counts |-> <<link_result.matched, link_result.total,
                                 link_result.unmatched>>]
        /\ UNCHANGED <<groups_dir, ratings_file, index_file,
                       normVars, linkerVars, consVars, poolVars>>

Next ==
    \/ \E r \in LinkRosters : PutRatingsFile(FileOf(r))
    \/ PutRatingsFile(FileAbsent)
    \/ PutRatingsFile(FileCorrupt)
    \/ \E c \in Courses, names \in GroupLists : SaveGroups(c, names)
    \/ \E c \in Courses : DamageGroupFile(c)
    \/ \E c \in Courses : \E i \in 1..Len(group_files[c].data) :
          DamageGroupRecord(c, i)
    \/ LinkPass

Spec == Init /\ [][Next]_vars

\* The groups persisted in the group files, each with the course of its file.
PersistedGroups ==
    UNION { { <<c, i>> : i \in 1..Len(group_files[c].data) } : c \in Courses }

\* C1: with the roster of the one record {id 7, full_name "JUAN PEREZ"}, a
\* linking pass that meets no I/O error leaves every persisted group whose
\* professor is "Dr. Juan Pérez" with professor_id 7.
C1_AccentedNameResolved ==
    (link_result.ran /\ link_result.clean /\ link_result.roster = <<Prof7>>) =>
        \A g \in PersistedGroups :
           group_files[g[1]].data[g[2]].professor = Dr_Juan_Perez
              => group_files[g[1]].data[g[2]].professor_id = "7"

\* C2: after every linking pass the matched and the unmatched counts add up
\* to the total count, a group without a professor name being in none.
C2_CountersAddUp ==
    link_result.ran =>
        link_result.matched + link_result.unmatched = link_result.total

\* The professor_id of every group of every group file.
ProfessorIds(files) ==
    [c \in Courses |->
        [i \in 1..Len(files[c].data) |-> files[c].data[i].professor_id]]

\* The counters a linking pass returned.
Counters(result) == <<result.matched, result.total, result.unmatched>>

PersistedNames ==
    { group_files[g[1]].data[g[2]].professor : g \in PersistedGroups } \ { <<>> }

\* C4: after a linking pass that meets no I/O error, every persisted group
\* with a professor name has the professor_id _match_professor gives the
\* name against the roster of the pass: the id of the record, or none (null
\* or no key) when there is no match.
C4_KeysReflectRoster ==
    (link_result.ran /\ link_result.clean /\ ratings_file.status # "corrupt") =>
        LET matches == Linker_match_all(link_result.roster, PersistedNames)
        IN  \A g \in PersistedGroups :
               LET group == group_files[g[1]].data[g[2]]
               IN  group.professor # <<>> =>
                      IF DictGet(matches, group.professor).stage # "none"
                      THEN group.professor_id
                              = DictGet(matches, group.professor).prof.id
                      ELSE group.professor_id \in { None, Absent }

\* The number of values in the group files a pass started from.
RecordsBefore ==
    SumOver({ <<c, Len(link_result.before[c].data)>> : c \in Courses }, Courses)

\* C12: a linking pass over no group at all (no groups directory, no group
\* file, or group files that hold empty lists only) returns matched 0,
\* total 0 and unmatched 0; the match rate is computed exactly when the total
\* is positive, and with a total of 0 the pass still returns True.
C12_ZeroTotalGuard ==
    link_result.ran =>
        /\ (~groups_dir \/ RecordsBefore = 0) =>
               Counters(link_result) = <<0, 0, 0>>
        /\ link_result.rate.computed <=> link_result.total > 0
        /\ link_result.total = 0 => link_result.ok

\* C12: a pass has run over group files that parse and hold no group.
C12_Witness ==
    /\ link_result.ran
    /\ groups_dir
    /\ \E c \in Courses : link_result.before[c] = FileOf(<<>>)
    /\ \A c \in Courses : link_result.before[c] \in { FileOf(<<>>), FileAbsent }
    /\ link_result.roster # <<>>
    /\ link_result.total = 0
    /\ link_result.ok
    /\ ~link_result.rate.computed

\* The group files a pass read and got through without an exception.
ProcessedCourses ==
    { c \in Courses :
         /\ link_result.before[c].status = "ok"
         /\ c \notin link_result.unread
         /\ c \notin link_result.raised }

\* What the second loop of the pass makes of the groups of a file the pass
\* read, given the professor_matches of the pass.
Contribution(c) == ApplyMatches(link_result.before[c].data, link_result.matches)

\* C15: a group file that cannot be parsed or read, or whose processing
\* raises, adds nothing to the counters of the pass, which are the sums over
\* the other group files.
C15_MalformedContributesZero ==
    link_result.ran =>
        \A adds \in { { <<c, Contribution(c)>> : c \in ProcessedCourses } } :
           /\ link_result.ok
           /\ link_result.matched
                 = SumOver({ <<a[1], a[2].matched>> : a \in adds }, ProcessedCourses)
           /\ link_result.total
                 = SumOver({ <<a[1], a[2].total>> : a \in adds }, ProcessedCourses)
           /\ link_result.unmatched
                 = SumOver({ <<a[1], a[2].unmatched>> : a \in adds }, ProcessedCourses)

\* The group files a pass read: those the second loop goes over.
LoadedCourses ==
    { c \in Courses :
         link_result.before[c].status = "ok" /\ c \notin link_result.unread }

NamedGroups(c) ==
    { i \in 1..Len(DictPrefix(link_result.before[c].data)) :
         link_result.before[c].data[i].professor # <<>> }

\* C17: a pass whose professor_ratings.json is missing, unreadable or the
\* empty list returns True; every professor name has no match, matched is 0
\* and unmatched is the number of groups with a professor name in the group
\* files it read.
C17_MissingRoster ==
    (link_result.ran /\ link_result.roster = <<>>) =>
        /\ link_result.ok
        /\ \A m \in link_result.matches : m[2] = NoMatch
        /\ link_result.matched = 0
        /\ link_result.unmatched
              = SumOver({ <<c, Cardinality(NamedGroups(c))>> : c \in LoadedCourses },
                        LoadedCourses)

\* C17: a pass without professor_ratings.json has gone over two groups with
\* a professor name and one without.
C17_Witness ==
    /\ link_result.ran
    /\ ratings_file = FileAbsent
    /\ link_result.ok
    /\ link_result.unmatched = 2
    /\ link_result.total = 3
    /\ link_result.matched = 0

\* C20: a linking pass writes a group file only if a field of one of its
\* groups changed in the pass: every file it wrote differs from what it
\* loaded.
C20_WrittenOnlyIfChanged ==
    link_result.ran =>
        \A c \in link_result.written :
           group_files[c].data # link_result.before[c].data

\* The professor names the first loop of the pass reads in the files it
\* loaded.
NamesFound ==
    UNION { { link_result.before[c].data[i].professor : i \in NamedGroups(c) } :
            c \in LoadedCourses }

\* The professor_id the pass caches for a name.
CachedId(name) ==
    IF DictGet(link_result.matches, name).stage # "none"
    THEN DictGet(link_result.matches, name).prof.id
    ELSE None

\* C21: a linking pass calls _match_professor once for each distinct
\* professor name it reads in the group files it loaded, however many groups
\* carry the name, and keeps one result per name; every group with that name
\* the second loop reaches gets the professor_id of that result, in memory
\* and in every file the pass writes.
C21_OneMatchPerName ==
    link_result.ran =>
        /\ link_result.match_calls = Cardinality(NamesFound)
        /\ { m[1] : m \in link_result.matches } = NamesFound
        /\ Cardinality(link_result.matches) = Cardinality(NamesFound)
        /\ \A c \in LoadedCourses :
              \A i \in NamedGroups(c) :
                 /\ Contribution(c).groups[i].professor_id
                       = CachedId(link_result.before[c].data[i].professor)
                 /\ c \in link_result.written =>
                       group_files[c].data[i].professor_id
                          = CachedId(link_result.before[c].data[i].professor)

\* C21: a pass has read one name in two groups of two files, called
\* _match_professor once and written the id of the match to both files.
C21_Witness ==
    /\ link_result.ran
    /\ link_result.match_calls = 1
    /\ NamesFound = { JUAN_PEREZ }
    /\ link_result.written = Courses
    /\ link_result.matched = 2
    /\ \A c \in Courses :
          \A i \in NamedGroups(c) : group_files[c].data[i].professor_id = "7"

\* C22: a linking pass leaves every group file it loaded with the groups it
\* had, in number and order; a group with a professor name differs from the
\* loaded one in its professor_id at most, and a group without one is the
\* loaded one, professor_id included.
C22_WriteBackFrame ==
    link_result.ran =>
        \A c \in Courses :
           link_result.before[c].status = "ok" =>
              /\ group_files[c].status = "ok"
              /\ Len(group_files[c].data) = Len(link_result.before[c].data)
              /\ \A i \in 1..Len(link_result.before[c].data) :
                    IF link_result.before[c].data[i].professor # <<>>
                    THEN [group_files[c].data[i] EXCEPT !.professor_id = Absent]
                          = [link_result.before[c].data[i] EXCEPT !.professor_id = Absent]
                    ELSE group_files[c].data[i] = link_result.before[c].data[i]

(***************************************************************************)
(* The groups scraper's worker pool: one save_groups call per course, all  *)
(* given the professor_ratings loaded once, their statements interleaved.  *)
(***************************************************************************)
\* The professor_ratings the scraper loaded, in file order.
PoolRosters == { <<Prof7>>, <<Prof8, Prof7>> }

\* The raw professor names of the groups parsed for one course.
PoolGroupLists == { <<JUAN_PEREZ>>, <<JUAN_PEREZ_GARCIA, <<>>>> }

\* One linker object for every call.
OneLinkerForAll(course) == CHOOSE c \in Courses : TRUE

\* The linker object a save_groups call works with: the one it constructs
\* itself (storage.py, line 150), whose lists and dicts __init__ creates.
LinkerOf(course) == course

\* _build_indexes, lines 68-75, for one record.
IndexProfessor(linker, prof) ==
    [linker EXCEPT
        !.by_normalized =
            [key \in DOMAIN linker.by_normalized \cup { NormalizedKey(prof) } |->
                IF key = NormalizedKey(prof) THEN prof
                ELSE linker.by_normalized[key]],
        !.by_tokens =
            AppendUnderKey(linker.by_tokens,
                           TokenKey(Linker_get_tokens(NormalizedKey(prof))), prof)]

\* DataStorage.save_groups, lines 155-168, for one group, with the linker
\* as it is when the group is reached.
SavedGroup(course, i, professor_name, professor_ratings, linker) ==
    IF professor_ratings # <<>> /\ professor_name # <<>>
    THEN EmbedMatch(GroupDict(course, i, professor_name),
                    Linker_match_professor(linker.professors, linker.by_normalized,
                                           linker.by_tokens, professor_name))
    ELSE GroupDict(course, i, professor_name)

InitPool ==
    /\ pool_ratings \in PoolRosters
    /\ pool_linkers = [c \in Courses |-> NewLinker]
    /\ pool_calls \in [Courses -> { [NoCall EXCEPT !.pc = "called",
                                                   !.professor_names = names] :
                                       names \in PoolGroupLists }]
    /\ pool_files = [c \in Courses |-> FileAbsent]
    /\ NormIdle
    /\ LinkerIdle
    /\ ConsIdle
    /\ DirIdle

\* storage.py, line 150: linker = ProfessorGroupsLinker().
ConstructLinker(c) ==
    /\ pool_calls[c].pc = "called"
    /\ pool_linkers' = [pool_linkers EXCEPT ![LinkerOf(c)] = NewLinker]
    /\ pool_calls' = [pool_calls EXCEPT ![c].pc = "constructed"]
    /\ UNCHANGED <<pool_ratings, pool_files, normVars, linkerVars, consVars, dirVars>>

\* storage.py, lines 151-153: linker.professors = list(professor_ratings.values()).
SetProfessors(c) ==
    /\ pool_calls[c].pc = "constructed"
    /\ pool_linkers' = [pool_linkers EXCEPT ![LinkerOf(c)].professors = pool_ratings]
    /\ pool_calls' = [pool_calls EXCEPT ![c].pc = "indexing", ![c].k = 0]
    /\ UNCHANGED <<pool_ratings, pool_files, normVars, linkerVars, consVars, dirVars>>

\* One turn of the loop of _build_indexes.
IndexNext(c) ==
    /\ pool_calls[c].pc = "indexing"
    /\ pool_calls[c].k < Len(pool_linkers[LinkerOf(c)].professors)
    /\ pool_linkers' =
          [pool_linkers EXCEPT ![LinkerOf(c)] =
              IndexProfessor(@, @.professors[pool_calls[c].k + 1])]
    /\ pool_calls' = [pool_calls EXCEPT ![c].k = @ + 1]
    /\ UNCHANGED <<pool_ratings, pool_files, normVars, linkerVars, consVars, dirVars>>

\* The loop of _build_indexes ends.
IndexesBuilt(c) ==
    /\ pool_calls[c].pc = "indexing"
    /\ pool_calls[c].k >= Len(pool_linkers[LinkerOf(c)].professors)
    /\ pool_calls' = [pool_calls EXCEPT ![c].pc = "matching", ![c].k = 0]
    /\ UNCHANGED <<pool_ratings, pool_linkers, pool_files,
                   normVars, linkerVars, consVars, dirVars>>

\* One turn of the loop of save_groups, lines 155-168.
MatchNext(c) ==
    /\ pool_calls[c].pc = "matching"
    /\ pool_calls[c].k < Len(pool_calls[c].professor_names)
    /\ pool_calls' =
          [pool_calls EXCEPT
              ![c].k = @ + 1,
              ![c].data =
                  Append(@, SavedGroup(c, pool_calls[c].k + 1,
                                       pool_calls[c].professor_names[pool_calls[c].k + 1],
                                       pool_ratings, pool_linkers[LinkerOf(c)]))]
    /\ UNCHANGED <<pool_ratings, pool_linkers, pool_files,
                   normVars, linkerVars, consVars, dirVars>>

\* storage.py, lines 170-174: _save_json, which may fail, and the return.
SaveJson(c) ==
    /\ pool_calls[c].pc = "matching"
    /\ pool_calls[c].k = Len(pool_calls[c].professor_names)
    /\ \E saved \in BOOLEAN :
          /\ pool_calls' = [pool_calls EXCEPT ![c].pc = "done", ![c].saved = saved]
          /\ pool_files' = IF saved
                           THEN [pool_files EXCEPT ![c] = FileOf(pool_calls[c].data)]
                           ELSE pool_files
    /\ UNCHANGED <<pool_ratings, pool_linkers, normVars, linkerVars, consVars, dirVars>>

NextPool ==
    \E c \in Courses :
        \/ ConstructLinker(c)
        \/ SetProfessors(c)
        \/ IndexNext(c)
        \/ IndexesBuilt(c)
        \/ MatchNext(c)
        \/ SaveJson(c)

SpecPool == InitPool /\ [][NextPool]_vars

\* Every call has, for the groups it has got to, what save_groups builds for
\* them when it runs alone, and a call that saved has that in its file.
CallsAsAlone ==
    \A c \in Courses :
       pool_calls[c].pc \in { "matching", "done" } =>
          /\ pool_calls[c].data
                = SubSeq(Storage_save_groups_data(c, pool_calls[c].professor_names,
                                                  pool_ratings),
                         1, pool_calls[c].k)
          /\ pool_calls[c].pc = "done" =>
                /\ pool_calls[c].k = Len(pool_calls[c].professor_names)
                /\ pool_calls[c].saved => pool_files[c] = FileOf(pool_calls[c].data)

\* C18: however the statements of the save_groups calls of a worker pool
\* interleave, each call builds and saves what it builds when it runs alone
\* over the shared professor_ratings, and no step of a call changes the
\* shared professor_ratings or a record of it.
C18_CallsShareNoMutableState ==
    /\ []CallsAsAlone
    /\ [][pool_ratings' = pool_ratings]_vars

\* C18: one call has matched a group to the record with id 7 while the other
\* is in the middle of building its indexes over the same records.
C18_Witness ==
    /\ pool_ratings = <<Prof8, Prof7>>
    /\ \E c, d \in Courses :
          /\ pool_calls[c].pc = "matching"
          /\ pool_calls[c].k = 1
          /\ pool_calls[c].data[1].professor_id = "7"
          /\ pool_calls[d].pc = "indexing"
          /\ pool_calls[d].k = 1

(***************************************************************************)
(* The commands over one data directory: the professors scraper saves the  *)
(* roster, the groups scraper saves groups, the linking pass runs.         *)
(***************************************************************************)
\* The professors the professors scraper passes to save_professors.
ScrapedRosters == { <<Prof7, Prof8>> }

\* The roster the roster source puts as professor_ratings.json: the records
\* save_professors is given, as it orders them.
PutRosters == { <<Prof8, Prof7>> }

\* The courses the groups command scrapes.
CommandCourses == { "1001" }

\* The raw professor names of the groups save_groups is given.
CommandGroupLists == { <<JUAN_PEREZ>>, <<JUAN_CARLOS_PEREZ, <<>>>>, <<ANA_LUNA, JUAN_PEREZ>> }

\* DataStorage.save_professors; saved is whether _save_json succeeds.
SaveProfessors(profs) ==
    /\ \E saved \in BOOLEAN :
          index_file' = IF saved THEN FileOf(SortedByRating(profs)) ELSE index_file
    /\ link_result' = NoLinkResult
    /\ UNCHANGED <<groups_dir, group_files, ratings_file,
                   normVars, linkerVars, consVars, poolVars>>

NextCommands ==
    \/ \E profs \in ScrapedRosters : SaveProfessors(profs)
    \/ \E r \in PutRosters : PutRatingsFile(FileOf(r))
    \/ PutRatingsFile(FileAbsent)
    \/ \E c \in CommandCourses, names \in CommandGroupLists : SaveGroups(c, names)
    \/ LinkPass

SpecCommands == Init /\ [][NextCommands]_vars

\* The records of a list.
RecordsOf(profs) == { profs[i] : i \in 1..Len(profs) }

\* C28: when save_professors has written the roster and a linking pass runs
\* afterwards on the same directory, the roster the pass loads holds exactly
\* the records save_professors wrote.
C28_LinkReadsSavedRoster ==
    (link_result.ran /\ index_file.status = "ok") =>
        RecordsOf(link_result.roster) = RecordsOf(index_file.data)

\* The records of both roster files.
RosterRecords ==
    RecordsOf(Storage_load_professor_ratings(index_file))
       \cup RecordsOf(Linker_load_professors(ratings_file))

\* C29: in every persisted group record the embedded first_name, last_name,
\* rating and num_ratings are those of the roster record whose id is the
\* record's professor_id, and are absent when the record has no professor_id
\* or a null one.
C29_EmbeddedDataFollowsId ==
    \A c \in Courses :
        group_files[c].status = "ok" =>
            \A i \in 1..Len(group_files[c].data) :
                LET group == group_files[c].data[i]
                IN  IF group.professor_id \in { Absent, None }
                    THEN group.prof_data = <<>>
                    ELSE \E prof \in RosterRecords :
                            /\ prof.id = group.professor_id
                            /\ group.prof_data = <<prof.first_name, prof.last_name,
                                                   prof.rating, prof.num_ratings>>
====
